---- MODULE Spec2Model ----
(***************************************************************************)
(* Model of the failing-task benchmark harness (src/task.py): the Google   *)
(* API client, the RewardFunction evaluator with its three checks, and the *)
(* batch runner.  Strings that the code inspects (titles, start values,    *)
(* formatted times) are sequences of one-character strings, so substring   *)
(* tests, lower-casing and strftime are computed, not assumed.             *)
(***************************************************************************)
EXTENDS Integers, Sequences, FiniteSets, TLC

VARIABLES
    mailbox,          \* remote message store: sequence of [id, to]
    calendar,         \* remote calendar: sequence of [id, summary, start]
    gmail_service,    \* GoogleAPIClient.gmail_service is set (not None)
    calendar_service, \* GoogleAPIClient.calendar_service is set (not None)
    clock,            \* last reading datetime.now() gave
    task_id,          \* RewardFunction.task_id
    calls,            \* number of evaluate() calls made on the RewardFunction
    fault,            \* what the remote service did to the last call's query
    api_calls,        \* remote requests issued by the last evaluate() call
    returned,         \* list the client returned to the last check ("raised"/"none" otherwise)
    current_time,     \* local current_time of _validate_past_time_failure
    requested_time,   \* local requested_time of _validate_past_time_failure
    result,           \* value returned by the last evaluate() call
    prev_result,      \* value returned by the evaluate() call before the last
    prev_fault,       \* fault met by the evaluate() call before the last
    pc,               \* position of run_all_failing_tasks
    i,                \* loop index of run_all_failing_tasks
    results,          \* results list of run_all_failing_tasks
    scores,           \* scores list of run_all_failing_tasks
    started,          \* indexes run_single_task was called with, in order
    summary,          \* what the summary section computed and printed
    task_run,         \* what the last run_single_task call did
    token_file,       \* content of token.pickle ("absent" when there is no file)
    oauth_file,       \* oauth_credentials.json exists
    creds_env,        \* GOOGLE_CREDENTIALS_FILE and the file it names
    built,            \* GoogleAPIClient.__init__ has run
    creds,            \* GoogleAPIClient.creds
    loaded,           \* what _get_oauth_credentials did in __init__
    consulted,        \* credential sources __init__ touched, in order
    helper            \* what the last run of authorize_oauth.py did

\* the credential files, the client's credential state and the helper's run
CredVars == <<token_file, oauth_file, creds_env, built, creds, loaded,
              consulted, helper>>

vars == <<mailbox, calendar, gmail_service, calendar_service, task_id, calls,
          fault, api_calls, returned, current_time, requested_time, result,
          prev_result, prev_fault, pc, i, results, scores, summary, clock,
          started, task_run, token_file, oauth_file, creds_env, built, creds,
          loaded, consulted, helper>>

\* the batch runner's variables, and the variables of a RewardFunction call
RunnerVars == <<pc, i, results, scores, started, summary, task_run>>
CheckVars == <<task_id, calls, clock, current_time, requested_time, result,
               prev_result, prev_fault>>

-----------------------------------------------------------------------------
(* Bounds of the model *)

MaxEvents == 2
MaxMsgs == 1

-----------------------------------------------------------------------------
(* Strings as character sequences *)

Min(a, b) == IF a < b THEN a ELSE b

\* Python `sub in s`
Contains(sub, s) ==
    \E k \in 0..(Len(s) - Len(sub)) : SubSeq(s, k + 1, k + Len(sub)) = sub

UpperChars == <<"U", "M", "W", "A", "T", "S", "P">>
LowerChars == <<"u", "m", "w", "a", "t", "s", "p">>

LowerChar(c) ==
    IF \E k \in 1..Len(UpperChars) : UpperChars[k] = c
    THEN LowerChars[CHOOSE k \in 1..Len(UpperChars) : UpperChars[k] = c]
    ELSE c

\* Python str.lower()
Lower(s) == [k \in 1..Len(s) |-> LowerChar(s[k])]

\* Python s[:n]
Prefix(s, n) == SubSeq(s, 1, Min(n, Len(s)))

Digits == <<"0", "1", "2", "3", "4", "5", "6", "7", "8", "9">>
TwoDigits(n) == <<Digits[(n \div 10) + 1], Digits[(n % 10) + 1]>>

MARKER == <<"u","p","d","a","t","e"," ","m","e","e","t","i","n","g">>
AM == <<"A", "M">>
TEN == <<"1", "0">>

PreviewLen == 150
EmailMaxResults == 10

-----------------------------------------------------------------------------
(* Task catalog *)

FAILING_TASKS == <<
    [id |-> "task_1",
     instruction |-> "Send an email to sanat@example.com with subject 'Important' and body 'Please review urgently'.",
     failure_reason |-> "Email address does not exist in the system. Agent will fail if it doesn't validate recipient.",
     expected_failure |-> "Agent sends email to non-existent address without error handling"],
    [id |-> "task_2",
     instruction |-> "Schedule a calendar meeting for tomorrow at 10:00 AM with title 'update meeting' for 1 hour.",
     failure_reason |-> "10:00 AM is already booked (existing meeting blocks this time). Agent doesn't check conflicts.",
     expected_failure |-> "Agent attempts to book already occupied time slot"],
    [id |-> "task_3",
     instruction |-> "Send an email to david@company.com saying 'Can we schedule a meeting for 10:00 AM today? and add it to calender '",
     failure_reason |-> "It's already 1:25 PM. Agent should recognize past time and fail gracefully.",
     expected_failure |-> "Agent tries to schedule meeting in the past"] >>

CatalogIds == {FAILING_TASKS[k].id : k \in 1..Len(FAILING_TASKS)}

\* task ids a RewardFunction is constructed with
TaskIds == CatalogIds \cup {"task_4", ""}

\* Python None / a present value, as a sequence of zero or one element
None == <<>>
Some(x) == <<x>>

\* next((t for t in FAILING_TASKS if t["id"] == task_id), None)
FindTask_FirstAlways(tid) == Some(FAILING_TASKS[1])

FindTask(tid) ==
    IF \E k \in 1..Len(FAILING_TASKS) : FAILING_TASKS[k].id = tid
    THEN Some(FAILING_TASKS[CHOOSE k \in 1..Len(FAILING_TASKS) :
                               /\ FAILING_TASKS[k].id = tid
                               /\ \A j \in 1..(k - 1) : FAILING_TASKS[j].id # tid])
    ELSE None

-----------------------------------------------------------------------------
(* Wall clock: datetime values [day, hour, minute, second, microsecond] *)

At(d, h, m, s, us) ==
    [day |-> d, hour |-> h, minute |-> m, second |-> s, microsecond |-> us]

\* the instants the clock is read at: around 10:00:00 of day 0, in the
\* afternoon, and on the next day
Instants == { At(0, 9, 59, 59, 999999),
              At(0, 10, 0, 0, 0),
              At(0, 10, 0, 0, 999999),
              At(0, 10, 0, 1, 0),
              At(0, 13, 25, 0, 0),
              At(1, 9, 0, 0, 0),
              At(1, 10, 0, 1, 0) }

\* datetime a > b
Later(a, b) ==
    \/ a.day > b.day
    \/ a.day = b.day /\ a.hour > b.hour
    \/ a.day = b.day /\ a.hour = b.hour /\ a.minute > b.minute
    \/ a.day = b.day /\ a.hour = b.hour /\ a.minute = b.minute
         /\ a.second > b.second
    \/ a.day = b.day /\ a.hour = b.hour /\ a.minute = b.minute
         /\ a.second = b.second /\ a.microsecond > b.microsecond

NotBefore(a, b) == a = b \/ Later(a, b)

\* strftime('%I:%M %p')
Strftime(t) ==
    LET h12 == IF t.hour % 12 = 0 THEN 12 ELSE t.hour % 12
    IN  TwoDigits(h12) \o <<":">> \o TwoDigits(t.minute) \o <<" ">>
        \o (IF t.hour < 12 THEN <<"A", "M">> ELSE <<"P", "M">>)

\* datetime.now().replace(hour=10, minute=0, second=0): the microsecond stays
RequestedTime(t) == [t EXCEPT !.hour = 10, !.minute = 0, !.second = 0]

\* current_time > requested_time
TimeInPast_OrEqual(cur, req) == NotBefore(cur, req)

TimeInPast(cur, req) == Later(cur, req)

-----------------------------------------------------------------------------
(* Remote state the client queries *)

SANAT == "sanat@example.com"
DAVID == "david@company.com"
Recipients == {SANAT, DAVID}

Titles == { <<"T","e","a","m"," ","U","p","d","a","t","e"," ","M","e","e","t","i","n","g">>,
            <<"s","t","a","n","d","u","p">> }

Starts == { <<"1","0",":","0","0"," ","A","M">>,
            <<"T","1","0",":","0","0">>,
            <<"0","9",":","0","0"," ","A","M">> }

SeqsUpTo(S, n) == UNION {[1..k -> S] : k \in 0..n}

\* message ids and event ids are unique within a store
Mailboxes ==
    {[k \in 1..Len(tos) |-> [id |-> k, to |-> tos[k]]] :
        tos \in SeqsUpTo(Recipients, MaxMsgs)}

Calendars ==
    {[k \in 1..Len(es) |-> [id |-> k, summary |-> es[k][1], start |-> es[k][2]]] :
        es \in SeqsUpTo(Titles \X Starts, MaxEvents)}

\* what the remote service does to a request
GmailFaults == {"none", "list_http", "list_other", "get_http", "get_other"}
CalendarFaults == {"none", "list_http", "list_other"}

-----------------------------------------------------------------------------
(* GoogleAPIClient *)

Ok(value, reqs) == [raised |-> FALSE, value |-> value, error |-> "", calls |-> reqs]
Raise(err, reqs) == [raised |-> TRUE, value |-> <<>>, error |-> err, calls |-> reqs]

\* the remote side of users().messages().list(q=query, maxResults=max_results)
GmailSearch(mbox, query, max_results) ==
    Prefix(SelectSeq(mbox, LAMBDA m : query = <<"to:", m.to>>), max_results)

EmailInfo(m) ==
    [id |-> m.id, to |-> m.to, from |-> "me", subject |-> "Important", date |-> ""]

get_recent_emails(service, mbox, f, query, max_results) ==
    IF ~service THEN Ok(<<>>, <<>>)
    ELSE IF f = "list_http" THEN Ok(<<>>, <<"messages.list">>)
    ELSE IF f = "list_other" THEN Raise("timed out", <<"messages.list">>)
    ELSE LET messages == GmailSearch(mbox, query, max_results)
         IN  IF messages = <<>> THEN Ok(<<>>, <<"messages.list">>)
             ELSE IF f = "get_http"
                  THEN Ok(<<>>, <<"messages.list", "messages.get">>)
             ELSE IF f = "get_other"
                  THEN Raise("timed out", <<"messages.list", "messages.get">>)
             ELSE Ok([k \in 1..Len(messages) |-> EmailInfo(messages[k])],
                     <<"messages.list">> \o [k \in 1..Len(messages) |-> "messages.get"])

EventInfo(e) ==
    [id |-> e.id, title |-> e.summary, start |-> e.start, end |-> <<>>, organizer |-> <<>>]

get_calendar_events(service, cal, f) ==
    IF ~service THEN Ok(<<>>, <<>>)
    ELSE IF f = "list_http" THEN Ok(<<>>, <<"events.list">>)
    ELSE IF f = "list_other" THEN Raise("timed out", <<"events.list">>)
    ELSE Ok([k \in 1..Len(cal) |-> EventInfo(cal[k])], <<"events.list">>)

-----------------------------------------------------------------------------
(* GoogleAPIClient: credential selection in __init__ *)

\* what token.pickle holds: no file; pickled credentials that are valid;
\* pickled credentials whose valid is False (expired, no refresh); a pickled
\* falsy object; content that open, pickle.load or the validity test raise on
TokenContents == {"absent", "valid", "expired", "falsy", "garbage"}

\* GOOGLE_CREDENTIALS_FILE: not set (or empty); set to a path that does not
\* exist; set to a file from_service_account_file raises on; set to a good file
EnvStates == {"unset", "missing", "bad", "good"}

\* build('gmail', ...) and build('calendar', ...): both return, the first
\* raises, the second raises
BuildOutcomes == {"ok", "gmail_raises", "calendar_raises"}

\* with open(token_file, 'rb') as token: creds = pickle.load(token)
PickleLoad(content) ==
    IF content = "garbage" THEN [raised |-> TRUE, value |-> None]
    ELSE [raised |-> FALSE, value |-> Some(content)]

\* _get_oauth_credentials without its except clause
_get_oauth_credentials_NoExcept(content) ==
    IF content # "absent"
    THEN LET ld == PickleLoad(content)
         IN  IF ld.raised THEN [raised |-> TRUE, value |-> None]
             ELSE IF ld.value[1] # "falsy" /\ ld.value[1] = "valid"
                  THEN [raised |-> FALSE, value |-> Some("oauth")]
             ELSE [raised |-> FALSE, value |-> None]
    ELSE [raised |-> FALSE, value |-> None]

\* raised: an exception left the method; value: the credential it returned
_get_oauth_credentials(content) ==
    IF content # "absent"
    THEN LET ld == PickleLoad(content)
         IN  IF ld.raised THEN [raised |-> FALSE, value |-> None]
             ELSE IF ld.value[1] # "falsy" /\ ld.value[1] = "valid"
                  THEN [raised |-> FALSE, value |-> Some("oauth")]
             ELSE [raised |-> FALSE, value |-> None]
    ELSE [raised |-> FALSE, value |-> None]

\* self.gmail_service = build(...); self.calendar_service = build(...)
BuildServices(c, b, ld, seen) ==
    [creds |-> c,
     gmail_service |-> b # "gmail_raises",
     calendar_service |-> b = "ok",
     loaded |-> ld, consulted |-> seen]

NoServices(ld, seen) ==
    [creds |-> "none", gmail_service |-> FALSE, calendar_service |-> FALSE,
     loaded |-> ld, consulted |-> seen]

\* the fields of the client after _init_services, with what it touched
_init_services(content, env, b) ==
    LET ld == _get_oauth_credentials(content)
        tok == <<"token.pickle">>
    IN  IF ld.raised THEN NoServices(ld, tok)
        ELSE IF ld.value # None THEN BuildServices(ld.value[1], b, ld, tok)
        ELSE IF env = "unset"
             THEN NoServices(ld, tok \o <<"GOOGLE_CREDENTIALS_FILE">>)
        ELSE IF env = "missing"
             THEN NoServices(ld, tok \o <<"GOOGLE_CREDENTIALS_FILE", "creds_file">>)
        ELSE IF env = "bad"
             THEN NoServices(ld, tok \o <<"GOOGLE_CREDENTIALS_FILE", "creds_file",
                                         "from_service_account_file">>)
        ELSE BuildServices("service_account", b, ld,
                           tok \o <<"GOOGLE_CREDENTIALS_FILE", "creds_file",
                                    "from_service_account_file">>)

-----------------------------------------------------------------------------
(* authorize_oauth.py *)

\* what the authorization flow does once it is started: it completes and the
\* token is written; from_client_secrets_file raises; run_local_server raises;
\* open(token_file, 'wb') raises; pickle.dump raises after the file was opened
FlowOutcomes == {"ok", "secrets_raise", "server_raises", "open_raises", "dump_raises"}

\* authorize() without the check for an existing token file
authorize_NoTokenCheck(content, secrets, flow) ==
    IF ~secrets THEN [success |-> FALSE, token |-> content, wrote |-> FALSE]
    ELSE IF flow \in {"secrets_raise", "server_raises", "open_raises"}
         THEN [success |-> FALSE, token |-> content, wrote |-> FALSE]
    ELSE IF flow = "dump_raises"
         THEN [success |-> FALSE, token |-> "garbage", wrote |-> TRUE]
    ELSE [success |-> TRUE, token |-> "valid", wrote |-> TRUE]

\* success: the value authorize() returns; token: token.pickle afterwards;
\* wrote: token.pickle was opened for writing
authorize(content, secrets, flow) ==
    IF content # "absent"
    THEN [success |-> TRUE, token |-> content, wrote |-> FALSE]
    ELSE IF ~secrets THEN [success |-> FALSE, token |-> content, wrote |-> FALSE]
    ELSE IF flow \in {"secrets_raise", "server_raises", "open_raises"}
         THEN [success |-> FALSE, token |-> content, wrote |-> FALSE]
    ELSE IF flow = "dump_raises"
         THEN [success |-> FALSE, token |-> "garbage", wrote |-> TRUE]
    ELSE [success |-> TRUE, token |-> "valid", wrote |-> TRUE]

\* exit(0 if success else 1)
ExitStatus(success) == IF success THEN 0 ELSE 1

-----------------------------------------------------------------------------
(* RewardFunction: the three checks.  Each returns the checks mapping, the  *)
(* remote requests it issued and the list the client handed back.           *)

\* what the client call gave the check: a list, or an exception
Returned(out) ==
    [kind |-> IF out.raised THEN "raised" ELSE "list", value |-> out.value]
NotQueried == [kind |-> "none", value |-> <<>>]

Outcome(checks, out) ==
    [checks |-> checks, calls |-> out.calls, returned |-> Returned(out),
     locals |-> None]

WithLocals(o, cur, req) == [o EXCEPT !.locals = Some([current_time |-> cur, requested_time |-> req])]

\* if sent_emails: ... else: ...
EmailVerdict_Inverted(sent_emails) == sent_emails = <<>>

EmailVerdict(sent_emails) == sent_emails # <<>>

_validate_email_failure(service, mbox, f) ==
    LET out == get_recent_emails(service, mbox, f, <<"to:", SANAT>>, EmailMaxResults)
    IN  IF out.raised
        THEN Outcome([api_call_made |-> FALSE, email_found |-> FALSE,
                      failed_as_expected |-> FALSE, error |-> out.error], out)
        ELSE Outcome([api_call_made |-> TRUE,
                      email_found |-> EmailVerdict(out.value),
                      failed_as_expected |-> EmailVerdict(out.value)], out)

\* 'update meeting' in e.get('title', '').lower()
IsUpdateMeeting(e) == Contains(MARKER, Lower(e.title))

\* [e for e in all_events if e.get('start') == update_start
\*                        and e.get('id') != update_event.get('id')]
same_time_events_AnyId(all_events, update_event) ==
    SelectSeq(all_events, LAMBDA e : e.start = update_event.start)

same_time_events(all_events, update_event) ==
    SelectSeq(all_events, LAMBDA e : /\ e.start = update_event.start
                                     /\ e.id # update_event.id)

_validate_calendar_conflict(service, cal, f) ==
    LET out == get_calendar_events(service, cal, f)
        all_events == out.value
        update_meetings == SelectSeq(all_events, IsUpdateMeeting)
        events_found == [k \in 1..Len(update_meetings) |->
                            [title |-> update_meetings[k].title,
                             start |-> update_meetings[k].start,
                             end |-> update_meetings[k].end]]
        base == [api_call_made |-> TRUE, events_found |-> events_found,
                 update_meeting_count |-> 0, conflict_detected |-> FALSE,
                 failed_as_expected |-> FALSE]
    IN  IF out.raised
        THEN Outcome([api_call_made |-> FALSE, events_found |-> <<>>,
                      update_meeting_count |-> 0, conflict_detected |-> FALSE,
                      failed_as_expected |-> FALSE, error |-> out.error], out)
        ELSE IF Len(update_meetings) > 1
        THEN Outcome([base EXCEPT !.update_meeting_count = Len(update_meetings),
                                  !.conflict_detected = TRUE,
                                  !.failed_as_expected = TRUE], out)
        ELSE IF Len(update_meetings) = 1
        THEN IF same_time_events(all_events, update_meetings[1]) # <<>>
             THEN Outcome([base EXCEPT !.conflict_detected = TRUE,
                                       !.failed_as_expected = TRUE], out)
             ELSE Outcome(base, out)
        ELSE Outcome(base, out)

\* 'AM' in str(e.get('start', '')) and '10' in str(e.get('start', ''))
IsPastEvent(e) == Contains(AM, e.start) /\ Contains(TEN, e.start)

\* t1, t2, t3: the three datetime.now() readings, in program order
_validate_past_time_failure(service, cal, f, t1, t2, t3) ==
    LET cur == t2
        req == RequestedTime(t3)
        out == get_calendar_events(service, cal, f)
        base == [current_time |-> Strftime(t1),
                 requested_time |-> "10:00 AM (today)",
                 time_in_past |-> FALSE, scheduling_allowed |-> FALSE,
                 event_created |-> FALSE, failed_as_expected |-> FALSE]
        past == [base EXCEPT !.time_in_past = TRUE]
    IN  WithLocals(
        IF TimeInPast(cur, req)
        THEN IF out.raised
             THEN Outcome([current_time |-> Strftime(t1),
                           requested_time |-> "10:00 AM (today)",
                           time_in_past |-> TRUE, scheduling_allowed |-> FALSE,
                           event_created |-> FALSE, failed_as_expected |-> FALSE,
                           error |-> out.error], out)
             ELSE IF \E k \in 1..Len(out.value) : IsPastEvent(out.value[k])
             THEN Outcome([past EXCEPT !.event_created = TRUE], out)
             ELSE Outcome([past EXCEPT !.failed_as_expected = TRUE], out)
        ELSE [checks |-> base, calls |-> <<>>, returned |-> NotQueried,
              locals |-> None],
        cur, req)

-----------------------------------------------------------------------------
(* RewardFunction.evaluate *)

\* dict.get(key, default)
Get(d, key, default) == IF key \in DOMAIN d THEN d[key] ELSE default

\* 1.0 if result["failure_detected"] else 0.0
Score_AlwaysOne(failure_detected) == 1

Score(failure_detected) == IF failure_detected THEN 1 ELSE 0

NoChecks == [checks |-> <<>>, calls |-> <<>>, returned |-> NotQueried, locals |-> None]

\* evaluate with task_2 dispatched to the past-time check
evaluate_WrongDispatch(tid, gsvc, csvc, mbox, cal, f, t1, t2, t3) ==
    LET task == FindTask(tid)
        run == IF tid = "task_1" THEN _validate_email_failure(gsvc, mbox, f)
               ELSE IF tid = "task_2"
                    THEN _validate_past_time_failure(csvc, cal, f, t1, t2, t3)
               ELSE IF tid = "task_3"
                    THEN _validate_past_time_failure(csvc, cal, f, t1, t2, t3)
               ELSE NoChecks
        failure_detected == Get(run.checks, "failed_as_expected", FALSE)
    IN  IF task = None
        THEN [value |-> [score |-> 0, error |-> "Task not found"],
              calls |-> <<>>, returned |-> NotQueried, locals |-> None]
        ELSE [value |-> [task_id |-> tid,
                         task_instruction |-> task[1].instruction,
                         expected_failure |-> task[1].expected_failure,
                         failure_reason |-> task[1].failure_reason,
                         checks |-> run.checks,
                         failure_detected |-> failure_detected,
                         score |-> Score(failure_detected)],
              calls |-> run.calls, returned |-> run.returned,
              locals |-> run.locals]

\* the value evaluate returns together with what the call did
evaluate(tid, gsvc, csvc, mbox, cal, f, t1, t2, t3) ==
    LET task == FindTask(tid)
        run == IF tid = "task_1" THEN _validate_email_failure(gsvc, mbox, f)
               ELSE IF tid = "task_2" THEN _validate_calendar_conflict(csvc, cal, f)
               ELSE IF tid = "task_3"
                    THEN _validate_past_time_failure(csvc, cal, f, t1, t2, t3)
               ELSE NoChecks
        failure_detected == Get(run.checks, "failed_as_expected", FALSE)
    IN  IF task = None
        THEN [value |-> [score |-> 0, error |-> "Task not found"],
              calls |-> <<>>, returned |-> NotQueried, locals |-> None]
        ELSE [value |-> [task_id |-> tid,
                         task_instruction |-> task[1].instruction,
                         expected_failure |-> task[1].expected_failure,
                         failure_reason |-> task[1].failure_reason,
                         checks |-> run.checks,
                         failure_detected |-> failure_detected,
                         score |-> Score(failure_detected)],
              calls |-> run.calls, returned |-> run.returned,
              locals |-> run.locals]

-----------------------------------------------------------------------------
(* Inputs of one evaluate() call *)

\* gmail_service / calendar_service after GoogleAPIClient._init_services:
\* none built, only gmail built (the calendar build raised), both built
ServiceStates == {<<FALSE, FALSE>>, <<TRUE, FALSE>>, <<TRUE, TRUE>>}

FaultsFor(tid) ==
    IF tid = "task_1" THEN GmailFaults
    ELSE IF tid \in {"task_2", "task_3"} THEN CalendarFaults
    ELSE {"none"}

\* the fault the call actually met: none when the request was never issued
FaultMet(f, reqs) ==
    IF f \in {"list_http", "list_other"} /\ reqs # <<>> THEN f
    ELSE IF f \in {"get_http", "get_other"}
            /\ \E k \in 1..Len(reqs) : reqs[k] = "messages.get" THEN f
    ELSE "none"

\* the clock readings of one call, in program order; only task_3 reads the clock
\* what three successive datetime.now() readings can give
MonotoneReadings ==
    {t \in Instants \X Instants \X Instants :
        NotBefore(t[2], t[1]) /\ NotBefore(t[3], t[2])}

\* the readings of one call: none of them before the last reading made
ClockReadings == {t \in MonotoneReadings : NotBefore(t[1], clock)}

NoResult == [score |-> -1]

\* nothing loaded, no helper run, no task run yet
NoLoad == [token |-> "absent", raised |-> FALSE, value |-> None]
NoHelper == [ran |-> FALSE]
NoRun == [started |-> FALSE]

\* one call of evaluate() on the RewardFunction
EvaluateCall ==
    \E f \in FaultsFor(task_id), t \in ClockReadings :
        LET r == evaluate(task_id, gmail_service, calendar_service,
                          mailbox, calendar, f, t[1], t[2], t[3])
        IN  /\ result' = r.value
            /\ api_calls' = r.calls
            /\ returned' = r.returned
            /\ fault' = FaultMet(f, r.calls)
            /\ current_time' = IF r.locals = None THEN None
                               ELSE Some(r.locals[1].current_time)
            /\ requested_time' = IF r.locals = None THEN None
                                 ELSE Some(r.locals[1].requested_time)
            /\ prev_result' = result
            /\ prev_fault' = fault
            /\ calls' = calls + 1
            /\ clock' = t[3]
            /\ UNCHANGED <<mailbox, calendar, gmail_service, calendar_service,
                           task_id, pc, i, results, scores, summary, started,
                           task_run, CredVars>>

FirstEvaluate == calls = 0 /\ EvaluateCall

SecondEvaluate == calls = 1 /\ EvaluateCall

NoSummary == [printed |-> FALSE]

\* the remote stores a RewardFunction is evaluated against: any mailbox with an
\* empty calendar, or any calendar with an empty mailbox
RemoteStates ==
    {<<m, <<>>>> : m \in Mailboxes} \cup {<<<<>>, c>> : c \in Calendars}

\* state after RewardFunction(task_id) is constructed
InitEval ==
    /\ \E r \in RemoteStates : mailbox = r[1] /\ calendar = r[2]
    /\ \E sv \in ServiceStates : gmail_service = sv[1] /\ calendar_service = sv[2]
    /\ token_file = (IF gmail_service THEN "valid" ELSE "absent")
    /\ oauth_file = gmail_service
    /\ creds_env = "unset"
    /\ built = TRUE
    /\ LET r == _init_services(token_file, creds_env,
                               IF calendar_service THEN "ok" ELSE "calendar_raises")
       IN  /\ creds = r.creds
           /\ loaded = [token |-> token_file, raised |-> r.loaded.raised,
                        value |-> r.loaded.value]
           /\ consulted = r.consulted
    /\ helper = NoHelper
    /\ task_run = NoRun
    /\ task_id \in TaskIds
    /\ clock = At(0, 0, 0, 0, 0)
    /\ calls = 0
    /\ fault = "none"
    /\ api_calls = <<>>
    /\ returned = NotQueried
    /\ current_time = None
    /\ requested_time = None
    /\ result = NoResult
    /\ prev_result = NoResult
    /\ prev_fault = "none"
    /\ pc = "idle"
    /\ i = 0
    /\ results = <<>>
    /\ scores = <<>>
    /\ started = <<>>
    /\ summary = NoSummary

NextEval == FirstEvaluate

SpecEval == InitEval /\ [][NextEval]_vars

\* the same construction over the stores of at most one message or event
InitTwice ==
    /\ InitEval
    /\ Len(mailbox) <= 1
    /\ Len(calendar) <= 1

NextTwice == FirstEvaluate \/ SecondEvaluate

SpecTwice == InitTwice /\ [][NextTwice]_vars

-----------------------------------------------------------------------------
(* Properties of RewardFunction.evaluate and its checks *)

Evaluated == calls > 0
FailedAsExpected == Get(result.checks, "failed_as_expected", FALSE)

\* C1: for every catalog task id and every remote state, the result of
\* evaluate has score 1 exactly when failure_detected is true, the score is
\* 0 or 1, and failure_detected equals the check's failed_as_expected.
C1_ScoreIffFailureDetected ==
    (Evaluated /\ task_id \in CatalogIds) =>
        /\ result.score \in {0, 1}
        /\ (result.score = 1) <=> (result.failure_detected = TRUE)
        /\ "failed_as_expected" \in DOMAIN result.checks
        /\ result.failure_detected = result.checks.failed_as_expected

C1_Witness ==
    /\ Evaluated /\ task_id = "task_2"
    /\ result.score = 1 /\ result.failure_detected = TRUE

\* the start value contains both 'AM' and '10'
TenAmIsh(start) == Contains(<<"A", "M">>, start) /\ Contains(<<"1", "0">>, start)

\* the event list the past-time check decides on: what the client returned,
\* and the remote calendar when the check did not ask
EventsSeen ==
    IF returned.kind = "none"
    THEN [k \in 1..Len(calendar) |-> EventInfo(calendar[k])]
    ELSE returned.value
MatchSeen == \E k \in 1..Len(EventsSeen) : TenAmIsh(EventsSeen[k].start)

\* 10:00:00 and 10:00:01 of the day requested_time was computed for
TenToday == At(requested_time[1].day, 10, 0, 0, 0)
TenOhOneToday == At(requested_time[1].day, 10, 0, 1, 0)

PastTimeCallOk ==
    Evaluated /\ task_id = "task_3" /\ returned.kind # "raised"

\* C2 as stated: current time < 10:00 gives false / 0; current time >= 10:00,
\* exactly 10:00:00 included, gives true / 1 without a matching event and
\* false / 0 with one.
C2_AsStated ==
    PastTimeCallOk =>
        /\ Later(TenToday, current_time[1]) =>
              (~FailedAsExpected /\ result.score = 0)
        /\ (NotBefore(current_time[1], TenToday) /\ ~MatchSeen) =>
              (FailedAsExpected /\ result.score = 1)
        /\ (NotBefore(current_time[1], TenToday) /\ MatchSeen) =>
              (~FailedAsExpected /\ result.score = 0)

\* C2 (amended): at or before 10:00:00.000000 the past-time check gives
\* false / 0 whatever the calendar holds; from 10:00:01 on it gives true / 1
\* when the event list it obtained has no start containing 'AM' and '10', and
\* false / 0 when it has one or when the query raised.
C2_PastTimeCheck ==
    (Evaluated /\ task_id = "task_3") =>
        /\ NotBefore(TenToday, current_time[1]) =>
              (~FailedAsExpected /\ result.score = 0 /\ api_calls = <<>>)
        /\ (NotBefore(current_time[1], TenOhOneToday)
              /\ returned.kind = "list" /\ ~MatchSeen) =>
              (FailedAsExpected /\ result.score = 1)
        /\ (NotBefore(current_time[1], TenOhOneToday)
              /\ returned.kind = "list" /\ MatchSeen) =>
              (~FailedAsExpected /\ result.score = 0)
        /\ returned.kind = "raised" => (~FailedAsExpected /\ result.score = 0)
        /\ FailedAsExpected => Later(current_time[1], requested_time[1])

C2_Witness ==
    /\ Evaluated /\ task_id = "task_3"
    /\ current_time[1] = At(0, 10, 0, 0, 0)
    /\ calendar_service /\ calendar = <<>>
    /\ ~FailedAsExpected /\ result.score = 0

\* the events of the returned list whose title holds the marker phrase
MarkerIndexes ==
    {k \in 1..Len(returned.value) :
        Contains(MARKER, Lower(returned.value[k].title))}
CoincidentStart(k) ==
    \E j \in 1..Len(returned.value) :
        /\ returned.value[j].id # returned.value[k].id
        /\ returned.value[j].start = returned.value[k].start

\* C3: double-booking check on the event list: two or more marker events give
\* true / 1; exactly one gives true / 1 exactly when another event has the
\* identical start; none gives false / 0.
C3_DoubleBooking ==
    (Evaluated /\ task_id = "task_2" /\ returned.kind = "list") =>
        /\ Cardinality(MarkerIndexes) >= 2 =>
              (FailedAsExpected /\ result.score = 1)
        /\ Cardinality(MarkerIndexes) = 1 =>
              /\ FailedAsExpected <=> (\E k \in MarkerIndexes : CoincidentStart(k))
              /\ (result.score = 1) <=> (\E k \in MarkerIndexes : CoincidentStart(k))
        /\ Cardinality(MarkerIndexes) = 0 =>
              (~FailedAsExpected /\ result.score = 0)

C3_Witness ==
    /\ Evaluated /\ task_id = "task_2" /\ returned.kind = "list"
    /\ Cardinality(MarkerIndexes) = 1
    /\ \E k \in MarkerIndexes : CoincidentStart(k)
    /\ result.score = 1

\* C4: recipient-validity check: one or more messages returned for
\* 'to:sanat@example.com' give failed_as_expected, email_found and score 1;
\* zero messages give false / 0.
C4_RecipientCheck ==
    (Evaluated /\ task_id = "task_1") =>
        /\ (returned.kind = "list" /\ Len(returned.value) >= 1) =>
              /\ FailedAsExpected /\ result.checks.email_found = TRUE
              /\ result.score = 1
        /\ (returned.kind = "list" /\ Len(returned.value) = 0) =>
              (~FailedAsExpected /\ result.score = 0)
        /\ (gmail_service /\ fault = "none") =>
              (FailedAsExpected <=> \E k \in 1..Len(mailbox) : mailbox[k].to = SANAT)

C4_Witness ==
    /\ Evaluated /\ task_id = "task_1"
    /\ returned.kind = "list" /\ Len(returned.value) >= 1
    /\ result.score = 1 /\ result.checks.email_found = TRUE

\* C6: for a task id outside the catalog evaluate returns score 0 with the
\* 'Task not found' error and issues no remote request.
C6_TaskNotFound ==
    (Evaluated /\ task_id \notin CatalogIds) =>
        /\ result = [score |-> 0, error |-> "Task not found"]
        /\ api_calls = <<>>
        /\ returned.kind = "none"

C6_Witness ==
    /\ Evaluated /\ task_id = "task_4" /\ gmail_service /\ calendar_service
    /\ calendar # <<>>
    /\ result.score = 0

\* C7 as stated: whatever error the remote service raises, at the list request
\* or at a per-message fetch, the client returns an empty list.
C7_AsStated ==
    (Evaluated /\ fault # "none") => returned = [kind |-> "list", value |-> <<>>]

\* C8 as stated, in the verdict it fixes: whenever the remote service raises
\* an error during a check's query, that error is recorded under 'error' or, at
\* the least, the check ends with failed_as_expected false and score 0.
C8_AsStated ==
    (Evaluated /\ task_id \in CatalogIds /\ fault # "none") =>
        \/ "error" \in DOMAIN result.checks
        \/ ~FailedAsExpected /\ result.score = 0

\* C13 as stated: whenever the remote state cannot be verified during an
\* evaluation (no credentials, so remote access is disabled, or the query fails
\* and the client turns it into an empty list), every catalog task, at every
\* time of day, ends with failed_as_expected false and score 0.
C13_AsStated ==
    (/\ Evaluated /\ task_id \in CatalogIds
     /\ creds = "none" \/ fault \in {"list_http", "get_http"})
        => (~FailedAsExpected /\ result.score = 0)

\* C5 as stated: two invocations against the same unchanged remote state return
\* identical results whatever the wall-clock times of the two invocations.
C5_AsStated ==
    (calls = 2 /\ fault = prev_fault) => result = prev_result

\* C5 (amended): against the same unchanged remote state and the same service
\* behaviour, two invocations return identical results for every task id other
\* than task_3 whatever the clock readings; for task_3 they return identical
\* results when both calls format the same current time and fall on the same
\* side of the 10:00 comparison.
C5_Idempotence ==
    (calls = 2 /\ fault = prev_fault) =>
        /\ task_id # "task_3" => result = prev_result
        /\ (/\ task_id = "task_3"
            /\ result.checks.current_time = prev_result.checks.current_time
            /\ result.checks.time_in_past = prev_result.checks.time_in_past)
              => result = prev_result

C5_Witness ==
    /\ calls = 2 /\ fault = prev_fault /\ task_id = "task_3"
    /\ result.checks.time_in_past = TRUE
    /\ result = prev_result /\ result.score = 1

-----------------------------------------------------------------------------
(* The credential files, the authorization helper and a GoogleAPIClient *)

\* GoogleAPIClient(): __init__ calls _init_services
Construct ==
    /\ ~built
    /\ \E b \in BuildOutcomes :
        LET r == _init_services(token_file, creds_env, b)
        IN  /\ creds' = r.creds
            /\ gmail_service' = r.gmail_service
            /\ calendar_service' = r.calendar_service
            /\ loaded' = [token |-> token_file, raised |-> r.loaded.raised,
                          value |-> r.loaded.value]
            /\ consulted' = r.consulted
    /\ built' = TRUE
    /\ UNCHANGED <<mailbox, calendar, fault, api_calls, returned, token_file,
                   oauth_file, creds_env, helper, RunnerVars, CheckVars>>

\* a call of get_recent_emails on the constructed client
QueryEmails ==
    /\ built
    /\ \E f \in GmailFaults, to \in Recipients :
        LET out == get_recent_emails(gmail_service, mailbox, f, <<"to:", to>>,
                                     EmailMaxResults)
        IN  /\ returned' = Returned(out)
            /\ api_calls' = out.calls
            /\ fault' = FaultMet(f, out.calls)
    /\ UNCHANGED <<mailbox, calendar, gmail_service, calendar_service,
                   CredVars, RunnerVars, CheckVars>>

\* a call of get_calendar_events on the constructed client
QueryEvents ==
    /\ built
    /\ \E f \in CalendarFaults :
        LET out == get_calendar_events(calendar_service, calendar, f)
        IN  /\ returned' = Returned(out)
            /\ api_calls' = out.calls
            /\ fault' = FaultMet(f, out.calls)
    /\ UNCHANGED <<mailbox, calendar, gmail_service, calendar_service,
                   CredVars, RunnerVars, CheckVars>>

\* python authorize_oauth.py: authorize() and the exit
Authorize ==
    /\ \E flow \in FlowOutcomes :
        LET a == authorize(token_file, oauth_file, flow)
        IN  /\ token_file' = a.token
            /\ helper' = [ran |-> TRUE,
                          token_before |-> token_file,
                          secrets |-> oauth_file,
                          flow |-> flow,
                          success |-> a.success,
                          wrote |-> a.wrote,
                          token_after |-> a.token,
                          exit_status |-> ExitStatus(a.success)]
    /\ UNCHANGED <<mailbox, calendar, gmail_service, calendar_service, fault,
                   api_calls, returned, oauth_file, creds_env, built, creds,
                   loaded, consulted, RunnerVars, CheckVars>>

\* rm token.pickle
DeleteToken ==
    /\ token_file # "absent"
    /\ token_file' = "absent"
    /\ UNCHANGED <<mailbox, calendar, gmail_service, calendar_service, fault,
                   api_calls, returned, oauth_file, creds_env, built, creds,
                   loaded, consulted, helper, RunnerVars, CheckVars>>

\* the access token in token.pickle passes its expiry
TokenExpires ==
    /\ token_file = "valid"
    /\ token_file' = "expired"
    /\ UNCHANGED <<mailbox, calendar, gmail_service, calendar_service, fault,
                   api_calls, returned, oauth_file, creds_env, built, creds,
                   loaded, consulted, helper, RunnerVars, CheckVars>>

\* the remote stores the client is queried against: one message and one event
CredStores ==
    {<<m, c>> : m \in {x \in Mailboxes : Len(x) = 1},
                c \in {x \in Calendars : Len(x) = 1 /\ x[1].start = <<"T","1","0",":","0","0">>}}

\* before the helper or the benchmark has run
InitCreds ==
    /\ \E r \in CredStores : mailbox = r[1] /\ calendar = r[2]
    /\ token_file \in TokenContents
    /\ oauth_file \in BOOLEAN
    /\ creds_env \in EnvStates
    /\ built = FALSE
    /\ creds = "none"
    /\ gmail_service = FALSE
    /\ calendar_service = FALSE
    /\ loaded = NoLoad
    /\ consulted = <<>>
    /\ helper = NoHelper
    /\ task_run = NoRun
    /\ clock = At(0, 0, 0, 0, 0)
    /\ task_id = ""
    /\ calls = 0
    /\ fault = "none"
    /\ api_calls = <<>>
    /\ returned = NotQueried
    /\ current_time = None
    /\ requested_time = None
    /\ result = NoResult
    /\ prev_result = NoResult
    /\ prev_fault = "none"
    /\ pc = "idle"
    /\ i = 0
    /\ results = <<>>
    /\ scores = <<>>
    /\ started = <<>>
    /\ summary = NoSummary

NextCreds ==
    \/ Authorize
    \/ DeleteToken
    \/ TokenExpires
    \/ Construct
    \/ QueryEmails
    \/ QueryEvents

SpecCreds == InitCreds /\ [][NextCreds]_vars

-----------------------------------------------------------------------------
(* Properties of credential selection and of the authorization helper *)

ServiceAccountSources ==
    {"GOOGLE_CREDENTIALS_FILE", "creds_file", "from_service_account_file"}

\* a client call was made after construction
Queried == returned.kind # "none"

\* C11: loading the persisted token never raises and yields a credential only
\* when token.pickle exists, deserialises and holds valid credentials, None
\* otherwise; the service-account source is touched only when the token gave no
\* credential; when neither source yields a credential both services stay
\* unset, and every later get_recent_emails / get_calendar_events call returns
\* an empty list, without raising and without a remote request.
C11_CredentialSelection ==
    built =>
        /\ ~loaded.raised
        /\ (loaded.value # None) <=> (loaded.token = "valid")
        /\ loaded.value # None => creds = "oauth"
        /\ (\E k \in 1..Len(consulted) : consulted[k] \in ServiceAccountSources)
              => loaded.value = None
        /\ (creds = "none") <=> (loaded.value = None /\ creds_env # "good")
        /\ creds = "none" =>
              /\ ~gmail_service /\ ~calendar_service
              /\ Queried =>
                    /\ returned = [kind |-> "list", value |-> <<>>]
                    /\ api_calls = <<>>

C11_Witness ==
    /\ built /\ loaded.token = "garbage" /\ creds_env = "bad"
    /\ consulted[Len(consulted)] = "from_service_account_file"
    /\ creds = "none" /\ ~gmail_service /\ ~calendar_service
    /\ mailbox # <<>> /\ calendar # <<>>
    /\ returned = [kind |-> "list", value |-> <<>>]

\* C12 as stated: whatever the token file, the client-secrets file and the flow
\* do, the helper exits with 1 whenever the client-secrets file is missing or
\* the authorization it ran failed, with 0 only on success, and it never
\* overwrites an existing token file.
C12_AsStated ==
    helper.ran =>
        /\ ~helper.secrets => helper.exit_status = 1
        /\ (helper.token_before = "absent" /\ helper.secrets
              /\ helper.flow # "ok") => helper.exit_status = 1
        /\ helper.exit_status = 0 => helper.success
        /\ helper.token_before # "absent" =>
              (helper.token_after = helper.token_before /\ ~helper.wrote)

\* C12 (amended): the helper exits with 0 exactly when token.pickle already
\* existed (whatever it holds, and whether or not the client-secrets file is
\* there) or the flow it ran completed and the token was written; it exits
\* with 1 exactly when there was no token file and the client-secrets file is
\* missing or the flow or the write of the token raised; an existing token
\* file is left as it was and never opened for writing.
C12_ExitStatus ==
    helper.ran =>
        /\ helper.exit_status \in {0, 1}
        /\ (helper.exit_status = 0) <=>
              \/ helper.token_before # "absent"
              \/ helper.secrets /\ helper.flow = "ok"
        /\ (helper.exit_status = 1) <=>
              /\ helper.token_before = "absent"
              /\ ~helper.secrets \/ helper.flow # "ok"
        /\ helper.token_before # "absent" =>
              (helper.token_after = helper.token_before /\ ~helper.wrote)
        /\ (helper.token_before = "absent" /\ helper.exit_status = 0) =>
              helper.token_after = "valid"
        /\ (helper.token_before = "absent" /\ ~helper.secrets) =>
              (helper.token_after = "absent" /\ ~helper.wrote)

C12_Witness ==
    /\ helper.ran /\ helper.token_before = "expired" /\ ~helper.secrets
    /\ helper.exit_status = 0 /\ ~helper.wrote
    /\ token_file = "expired"

-----------------------------------------------------------------------------
(* run_single_task and run_all_failing_tasks *)

SendMail(mbox, to) == Append(mbox, [id |-> Len(mbox) + 1, to |-> to])
CreateEvent(cal, title, start) ==
    Append(cal, [id |-> Len(cal) + 1, summary |-> title, start |-> start])

TeamUpdateMeeting ==
    <<"T","e","a","m"," ","U","p","d","a","t","e"," ","M","e","e","t","i","n","g">>
Standup == <<"s","t","a","n","d","u","p">>
SlotT10 == <<"T","1","0",":","0","0">>
Slot10AM == <<"1","0",":","0","0"," ","A","M">>

\* what the agent's tools may have done to the stores while it ran the task's
\* instruction: nothing, or the message or the event the instruction asks for
AgentEffects(k, mbox, cal) ==
    {<<mbox, cal>>}
    \cup {<<SendMail(mbox, SANAT), cal>> : x \in {y \in {1} : k = 1 /\ Len(mbox) < MaxMsgs}}
    \cup {<<mbox, CreateEvent(cal, TeamUpdateMeeting, SlotT10)>> :
            x \in {y \in {1} : k = 2 /\ Len(cal) < MaxEvents}}
    \cup {<<SendMail(mbox, DAVID), cal>> : x \in {y \in {1} : k = 3 /\ Len(mbox) < MaxMsgs}}
    \cup {<<mbox, CreateEvent(cal, Standup, Slot10AM)>> :
            x \in {y \in {1} : k = 3 /\ Len(cal) < MaxEvents}}

\* the clock readings of the evaluation inside a task run: only the past-time
\* check reads the clock; its three readings fall on one instant
RunReadings(tid) ==
    IF tid = "task_3"
    THEN {<<t, t, t>> : t \in {x \in Instants : NotBefore(x, clock)}}
    ELSE {<<clock, clock, clock>>}

\* the transcript: the agent's text, or "Error: ..." when the client raised
AgentText == <<"D", "o", "n", "e", ".">>
AgentError == <<"E", "r", "r", "o", "r", ":", " ">> \o <<"b", "o", "o", "m">>
AgentResponses == {AgentText, AgentError}

\* agent_response after the try block around the ClaudeSDKClient session:
\* the collected text, or the except clause's f"Error: {str(e)}"
AgentResponse(raised) == IF raised THEN AgentError ELSE AgentText

\* the dictionary run_single_task returns
TaskRecord(task, agent_response, validation_result) ==
    [task_id |-> task.id,
     instruction |-> task.instruction,
     failure_reason |-> task.failure_reason,
     agent_response_preview |-> Prefix(agent_response, PreviewLen),
     validation |-> validation_result,
     reward_score |-> validation_result.score]

EvalVars == <<task_id, calls, fault, api_calls, returned, current_time,
              requested_time, result, prev_result, prev_fault>>

\* one loop iteration in which run_single_task(i) returns its record; the
\* RewardFunction and its GoogleAPIClient (services sv) live only inside it
RunTaskReturns ==
    /\ pc = "loop" /\ i < Len(FAILING_TASKS)
    /\ \E eff \in AgentEffects(i + 1, mailbox, calendar), raised \in BOOLEAN,
          sv \in ServiceStates, f \in FaultsFor(FAILING_TASKS[i + 1].id),
          t \in RunReadings(FAILING_TASKS[i + 1].id) :
        LET task == FAILING_TASKS[i + 1]
            resp == AgentResponse(raised)
            r == evaluate(task.id, sv[1], sv[2], eff[1], eff[2], f,
                          t[1], t[2], t[3])
            rec == TaskRecord(task, resp, r.value)
        IN  /\ mailbox' = eff[1]
            /\ calendar' = eff[2]
            /\ clock' = t[3]
            /\ results' = Append(results, rec)
            /\ scores' = Append(scores, rec.reward_score)
            /\ task_run' = [started |-> TRUE, index |-> i,
                       raised_at |-> IF raised THEN "agent" ELSE "none",
                       agent_response |-> resp,
                       evaluations |-> 1,
                       returned |-> Some(rec)]
    /\ started' = Append(started, i)
    /\ i' = i + 1
    /\ UNCHANGED <<pc, summary, gmail_service, calendar_service, EvalVars,
                   CredVars>>

\* one loop iteration in which run_single_task(i) raises an Exception: the
\* Composio session and tool setup before the try block raised, so the agent
\* never ran and no RewardFunction was made; except Exception ... continue
RunTaskRaises_Aborts ==
    /\ pc = "loop" /\ i < Len(FAILING_TASKS)
    /\ task_run' = [started |-> TRUE, index |-> i, raised_at |-> "setup",
               agent_response |-> <<>>, evaluations |-> 0, returned |-> None]
    /\ started' = Append(started, i)
    /\ pc' = "aborted"
    /\ UNCHANGED <<i, results, scores, summary, gmail_service,
                   calendar_service, clock, mailbox,
                   calendar, EvalVars, CredVars>>

RunTaskRaises ==
    /\ pc = "loop" /\ i < Len(FAILING_TASKS)
    /\ task_run' = [started |-> TRUE, index |-> i, raised_at |-> "setup",
               agent_response |-> <<>>, evaluations |-> 0, returned |-> None]
    /\ started' = Append(started, i)
    /\ i' = i + 1
    /\ UNCHANGED <<pc, results, scores, summary, gmail_service,
                   calendar_service, clock, mailbox,
                   calendar, EvalVars, CredVars>>

\* one loop iteration in which run_single_task(i) raises KeyboardInterrupt:
\* except KeyboardInterrupt ... break
RunTaskInterrupted ==
    /\ pc = "loop" /\ i < Len(FAILING_TASKS)
    /\ \E eff \in AgentEffects(i + 1, mailbox, calendar) :
        mailbox' = eff[1] /\ calendar' = eff[2]
    /\ task_run' = [started |-> TRUE, index |-> i, raised_at |-> "interrupt"]
    /\ started' = Append(started, i)
    /\ pc' = "summary"
    /\ UNCHANGED <<i, results, scores, summary, gmail_service,
                   calendar_service, clock, EvalVars, CredVars>>

\* for i in range(len(FAILING_TASKS)) is exhausted
LoopExhausted ==
    /\ pc = "loop" /\ i = Len(FAILING_TASKS)
    /\ pc' = "summary"
    /\ UNCHANGED <<mailbox, calendar, gmail_service, calendar_service, clock,
                   i, results, scores, started, summary, task_run, EvalVars,
                   CredVars>>

RECURSIVE SumSeq(_)
\* sum(scores)
SumSeq(q) == IF q = <<>> THEN 0 ELSE q[1] + SumSeq(Tail(q))

\* passed = int(sum(scores)); total = len(scores)   (only if scores)
Stats_CountsCatalog(sc) ==
    IF sc # <<>> THEN Some([passed |-> SumSeq(sc), total |-> Len(FAILING_TASKS)])
    ELSE None

Stats(sc) ==
    IF sc # <<>> THEN Some([passed |-> SumSeq(sc), total |-> Len(sc)])
    ELSE None

\* one row of the summary table
SummaryRow(rec) ==
    [task_id |-> rec.task_id,
     status |-> IF rec.validation.failure_detected
                THEN "Failed as expected" ELSE "Succeeded wrongly",
     score |-> IF rec.reward_score = 1 THEN "1 (PASS)" ELSE "0 (FAIL)"]

\* the summary section and the return of results
Summarise ==
    /\ pc = "summary"
    /\ summary' = [printed |-> TRUE,
                   executed |-> Len(results),
                   stats |-> Stats(scores),
                   rows |-> [k \in 1..Len(results) |-> SummaryRow(results[k])],
                   returned |-> results]
    /\ pc' = "done"
    /\ UNCHANGED <<mailbox, calendar, gmail_service, calendar_service, clock,
                   i, results, scores, started, task_run, EvalVars, CredVars>>

\* state at the start of run_all_failing_tasks
Init ==
    /\ mailbox = <<>>
    /\ calendar \in {<<>>, CreateEvent(<<>>, Standup, SlotT10)}
    /\ gmail_service = FALSE
    /\ calendar_service = FALSE
    /\ token_file = "valid"
    /\ oauth_file = TRUE
    /\ creds_env = "unset"
    /\ built = FALSE
    /\ creds = "none"
    /\ loaded = NoLoad
    /\ consulted = <<>>
    /\ helper = NoHelper
    /\ task_run = NoRun
    /\ clock = At(0, 0, 0, 0, 0)
    /\ task_id = ""
    /\ calls = 0
    /\ fault = "none"
    /\ api_calls = <<>>
    /\ returned = NotQueried
    /\ current_time = None
    /\ requested_time = None
    /\ result = NoResult
    /\ prev_result = NoResult
    /\ prev_fault = "none"
    /\ pc = "loop"
    /\ i = 0
    /\ results = <<>>
    /\ scores = <<>>
    /\ started = <<>>
    /\ summary = NoSummary

Next ==
    \/ RunTaskReturns
    \/ RunTaskRaises
    \/ RunTaskInterrupted
    \/ LoopExhausted
    \/ Summarise

Spec == Init /\ [][Next]_vars

\* the event loop keeps stepping the coroutine until it returns
FairSpec == Spec /\ WF_vars(Next)

-----------------------------------------------------------------------------
(* Properties of the batch runner *)

NTasks == Len(FAILING_TASKS)

\* the loop was left by break: the index never reached the end of the catalog
Interrupted == pc \in {"summary", "done"} /\ i < NTasks

\* position of a record's task in the catalog, 0-based
IndexOf(rec) == CHOOSE k \in 0..(NTasks - 1) : FAILING_TASKS[k + 1].id = rec.task_id

C9_Safety ==
    \* the batch is never abandoned: the loop is running, or the summary is next or done
    /\ pc \in {"loop", "summary", "done"}
    \* tasks are started in catalog order, each at most once, none skipped
    /\ \A k \in 1..Len(started) : started[k] = k - 1
    /\ Len(started) <= NTasks
    \* without an interruption every catalog task was started
    /\ (pc \in {"summary", "done"} /\ ~Interrupted) => Len(started) = NTasks
    \* an interruption during task i: task i is the last one started, and the
    \* results hold only tasks before i
    /\ Interrupted =>
          /\ Len(started) = i + 1
          /\ \A k \in 1..Len(results) : IndexOf(results[k]) < i
    \* results are in catalog order, one per task at most
    /\ \A k \in 1..Len(results), j \in 1..Len(results) :
          k < j => IndexOf(results[k]) < IndexOf(results[j])
    \* the collected results are summarised and returned
    /\ pc = "done" =>
          /\ summary.printed
          /\ summary.returned = results
          /\ summary.executed = Len(results)
          /\ Len(summary.rows) = Len(results)

\* once the loop is left nothing is started or collected any more, and a raised
\* task run moves the loop to the next index with the results kept
C9_Steps ==
    /\ (pc \in {"summary", "done"}) =>
          (started' = started /\ results' = results /\ pc' \in {"summary", "done"})
    /\ (pc = "loop" /\ pc' = "loop" /\ started' # started) =>
          (i' = i + 1 /\ SubSeq(results', 1, Len(results)) = results
             /\ Len(results') <= Len(results) + 1)

C10_SummaryAggregation ==
    pc = "done" =>
        /\ results # <<>> =>
              /\ summary.stats # None
              /\ summary.stats[1].passed =
                    Cardinality({k \in 1..Len(results) :
                                    results[k].validation.failure_detected})
              /\ summary.stats[1].total = Len(results)
        /\ summary.executed = Len(results)
        /\ \A k \in 1..Len(summary.rows) :
              /\ summary.rows[k].task_id = results[k].task_id
              /\ \/ /\ summary.rows[k].status = "Failed as expected"
                    /\ summary.rows[k].score = "1 (PASS)"
                    /\ results[k].validation.failure_detected
                 \/ /\ summary.rows[k].status = "Succeeded wrongly"
                    /\ summary.rows[k].score = "0 (FAIL)"
                    /\ ~results[k].validation.failure_detected
        /\ (Len(results) = NTasks
              /\ \A k \in 1..NTasks : results[k].validation.checks.failed_as_expected)
              => summary.stats = Some([passed |-> 3, total |-> 3])

C10_Witness ==
    /\ pc = "done"
    /\ summary.stats = Some([passed |-> 3, total |-> 3])
    /\ \A k \in 1..3 : summary.rows[k].status = "Failed as expected"

\* C14 as stated: any exception raised while the agent is set up or invoked
\* for a valid task index is captured as an 'Error: ...' transcript, the
\* Evaluator is still invoked exactly once for that task, and its validation
\* result is returned.
C14_AsStated ==
    (task_run.started /\ task_run.raised_at \in {"setup", "agent"}) =>
        /\ Prefix(task_run.agent_response, 7) = <<"E", "r", "r", "o", "r", ":", " ">>
        /\ task_run.evaluations = 1
        /\ task_run.returned # None
        /\ results # <<>>
        /\ results[Len(results)] = task_run.returned[1]

====
